---- MODULE Spec2Model ----
(***************************************************************************)
(* The mutation kernel of slimdom's Node (src/node.js): parent / child /   *)
(* sibling linkage, the live ranges of the owning document, the registered *)
(* mutation observers of every node and the queue of mutation records.     *)
(*                                                                         *)
(* Every method of Node.prototype is an operator from a heap (a record of  *)
(* all the fields of all the objects) to a result [h, ret, exit]: the heap *)
(* it leaves, the value it returns and the return statement it left by.    *)
(* A call that never returns (a walk along a cyclic parent chain, an       *)
(* unbounded recursion) leaves a heap with diverged = TRUE.                *)
(***************************************************************************)
EXTENDS Integers, Sequences, FiniteSets, TLC

\* ------------------------------------------------------------------ bounds
NumNodes == 4
MaxCalls == 2
MaxCallsRanges == 1
MaxCallsObservers == 1
MaxCallsFull == 1
MaxCallsText == 1
MaxObserved == 2

\* ------------------------------------------------------- program constants
ELEMENT_NODE == 1
TEXT_NODE == 3
DOCUMENT_NODE == 9

Null == 0
Node == 1..NumNodes
NodeOrNull == Node \cup {Null}

VARIABLES
    nodeType,            \* Node -> node type constant
    nodeValue,           \* Node -> content of a text node (sequence of code units)
    parentNode,          \* Node -> NodeOrNull
    nextSibling,         \* Node -> NodeOrNull
    previousSibling,     \* Node -> NodeOrNull
    childNodes,          \* Node -> sequence of Node
    firstChild,          \* Node -> NodeOrNull
    lastChild,           \* Node -> NodeOrNull
    registeredObservers, \* Node -> sequence of registrations
    ranges,              \* document.ranges: sequence of live ranges
    queue,               \* mutation records handed to util.queueMutationRecord
    diverged,            \* TRUE once a call has entered a loop it never leaves
    calls                \* number of calls the caller may still make

vars == <<nodeType, nodeValue, parentNode, nextSibling, previousSibling,
          childNodes, firstChild, lastChild, registeredObservers, ranges,
          queue, diverged, calls>>

\* The heap the methods work on: every field of every object.
Heap ==
    [nodeType |-> nodeType, nodeValue |-> nodeValue, parentNode |-> parentNode,
     nextSibling |-> nextSibling, previousSibling |-> previousSibling,
     childNodes |-> childNodes, firstChild |-> firstChild,
     lastChild |-> lastChild, registeredObservers |-> registeredObservers,
     ranges |-> ranges, queue |-> queue, diverged |-> diverged]

\* ----------------------------------------------------------- array helpers
\* array[i] || null, with JavaScript's 0-based index
At(seq, i) == IF i >= 0 /\ i < Len(seq) THEN seq[i + 1] ELSE Null

\* _.indexOf(array, x): 0-based index of the first occurrence, -1 when absent
IndexOf(seq, x) ==
    IF \E k \in 1..Len(seq) : seq[k] = x
    THEN (CHOOSE k \in 1..Len(seq) :
              seq[k] = x /\ \A j \in 1..(k - 1) : seq[j] # x) - 1
    ELSE -1

\* array.splice(index, 0, x)
SpliceIn(seq, index, x) ==
    SubSeq(seq, 1, index) \o <<x>> \o SubSeq(seq, index + 1, Len(seq))

\* array.splice(index, 1)
SpliceOut(seq, index) ==
    SubSeq(seq, 1, index) \o SubSeq(seq, index + 2, Len(seq))

\* ------------------------------------------------------------ collaborators
\* new MutationRecord('childList', target)
MutationRecord(target, added, removed, prev, next) ==
    [type |-> "childList", target |-> target, addedNodes |-> added,
     removedNodes |-> removed, previousSibling |-> prev, nextSibling |-> next]

\* util.queueMutationRecord(record)
queueMutationRecord(h, record) ==
    [h EXCEPT !.queue = Append(@, record)]

\* observer.observe(node, options, true): an identical but transient
\* registered observer is appended to node's list
observeTransient(h, node, registeredObserver) ==
    [h EXCEPT !.registeredObservers[node] =
        Append(@, [observer |-> registeredObserver.observer,
                   options |-> registeredObserver.options,
                   transient |-> TRUE])]

\* range.setStart(node, offset) / range.setEnd(node, offset)
setStart(range, node, offset) ==
    [range EXCEPT !.startContainer = node, !.startOffset = offset]

setEnd(range, node, offset) ==
    [range EXCEPT !.endContainer = node, !.endOffset = offset]

\* text.length()
length(h, node) == Len(h.nodeValue[node])

\* text.appendData(data)
appendData(h, node, data) ==
    [h EXCEPT !.nodeValue[node] = @ \o data]

\* ------------------------------------------------------------------ helpers
updateFirstLast(h, this) ==
    [h EXCEPT !.firstChild[this] = At(h.childNodes[this], 0),
              !.lastChild[this] = At(h.childNodes[this], Len(h.childNodes[this]) - 1)]

\* updateSiblings that clears the references of a removed node without
\* joining its former neighbours
updateSiblingsNoJoin(h, this, index) ==
    IF h.parentNode[this] = Null
    THEN [h EXCEPT !.nextSibling[this] = Null, !.previousSibling[this] = Null]
    ELSE LET siblings == h.childNodes[h.parentNode[this]]
             h1 == [h EXCEPT !.nextSibling[this] = At(siblings, index + 1),
                             !.previousSibling[this] = At(siblings, index - 1)]
             h2 == IF h1.nextSibling[this] # Null
                   THEN [h1 EXCEPT !.previousSibling[h1.nextSibling[this]] = this]
                   ELSE h1
         IN  IF h2.previousSibling[this] # Null
             THEN [h2 EXCEPT !.nextSibling[h2.previousSibling[this]] = this]
             ELSE h2

updateSiblings(h, this, index) ==
    IF h.parentNode[this] = Null
    THEN LET h1 == IF h.nextSibling[this] # Null
                   THEN [h EXCEPT !.previousSibling[h.nextSibling[this]] =
                                      h.previousSibling[this]]
                   ELSE h
             h2 == IF h1.previousSibling[this] # Null
                   THEN [h1 EXCEPT !.nextSibling[h1.previousSibling[this]] =
                                       h1.nextSibling[this]]
                   ELSE h1
         IN  [h2 EXCEPT !.nextSibling[this] = Null,
                        !.previousSibling[this] = Null]
    ELSE LET siblings == h.childNodes[h.parentNode[this]]
             h1 == [h EXCEPT !.nextSibling[this] = At(siblings, index + 1)]
             h2 == [h1 EXCEPT !.previousSibling[this] = At(siblings, index - 1)]
             h3 == IF h2.nextSibling[this] # Null
                   THEN [h2 EXCEPT !.previousSibling[h2.nextSibling[this]] = this]
                   ELSE h2
         IN  IF h3.previousSibling[this] # Null
             THEN [h3 EXCEPT !.nextSibling[h3.previousSibling[this]] = this]
             ELSE h3

\* ----------------------------------------------------------------- contains
\* The while loop of contains: the node the walk stops at (this or Null), or
\* -1 when it never stops. A walk that has made NumNodes steps without
\* stopping has visited some node twice and so runs round a cycle for ever.
RECURSIVE containsWalk(_, _, _, _)
containsWalk(h, this, childNode, steps) ==
    IF childNode = Null \/ childNode = this THEN childNode
    ELSE IF steps >= NumNodes THEN -1
    ELSE containsWalk(h, this, h.parentNode[childNode], steps + 1)

containsDiverges(h, this, childNode) == containsWalk(h, this, childNode, 0) = -1

contains(h, this, childNode) == containsWalk(h, this, childNode, 0) = this

\* -------------------------------------------------------------- removeChild
isRegisteredObserverForSubtree(registeredObserver) ==
    registeredObserver.options.subtree

\* subtreeObservers that keeps every registration of the parent
subtreeObserversUnfiltered(h, parent) == h.registeredObservers[parent]

\* _.filter(parent.registeredObservers, isRegisteredObserverForSubtree)
subtreeObservers(h, parent) ==
    SelectSeq(h.registeredObservers[parent], isRegisteredObserverForSubtree)

\* removeChildUpdateRange that also moves the points at the index of the
\* removed child
removeChildUpdateRangeFromIndex(h, this, childNode, index, range) ==
    LET r1 == IF contains(h, childNode, range.startContainer)
              THEN setStart(range, this, index)
              ELSE range
        r2 == IF contains(h, childNode, r1.endContainer)
              THEN setEnd(r1, this, index)
              ELSE r1
        r3 == IF r2.startContainer = this /\ r2.startOffset >= index
              THEN [r2 EXCEPT !.startOffset = @ - 1]
              ELSE r2
        r4 == IF r3.endContainer = this /\ r3.endOffset >= index
              THEN [r3 EXCEPT !.endOffset = @ - 1]
              ELSE r3
    IN  [range |-> r4,
         diverged |-> containsDiverges(h, childNode, range.startContainer)
                          \/ containsDiverges(h, childNode, range.endContainer)]

\* Body of the "Update ranges" loop of removeChild for one range. contains
\* may never return; the range then keeps what was written before.
removeChildUpdateRange(h, this, childNode, index, range) ==
    IF containsDiverges(h, childNode, range.startContainer)
    THEN [range |-> range, diverged |-> TRUE]
    ELSE LET r1 == IF contains(h, childNode, range.startContainer)
                   THEN setStart(range, this, index)
                   ELSE range
         IN  IF containsDiverges(h, childNode, r1.endContainer)
             THEN [range |-> r1, diverged |-> TRUE]
             ELSE LET r2 == IF contains(h, childNode, r1.endContainer)
                            THEN setEnd(r1, this, index)
                            ELSE r1
                      r3 == IF r2.startContainer = this /\ r2.startOffset > index
                            THEN [r2 EXCEPT !.startOffset = @ - 1]
                            ELSE r2
                      r4 == IF r3.endContainer = this /\ r3.endOffset > index
                            THEN [r3 EXCEPT !.endOffset = @ - 1]
                            ELSE r3
                  IN  [range |-> r4, diverged |-> FALSE]

\* The "Update ranges" loop of removeChild, from range iRange (1-based) on.
RECURSIVE removeChildUpdateRanges(_, _, _, _, _)
removeChildUpdateRanges(h, this, childNode, index, iRange) ==
    IF iRange > Len(h.ranges) THEN h
    ELSE LET u == removeChildUpdateRange(h, this, childNode, index, h.ranges[iRange])
             h1 == [h EXCEPT !.ranges[iRange] = u.range]
         IN  IF u.diverged
             THEN [h1 EXCEPT !.diverged = TRUE]
             ELSE removeChildUpdateRanges(h1, this, childNode, index, iRange + 1)

\* The inner for loop of the ancestor walk: one transient registration on
\* childNode for each of the subtree observers, in order.
RECURSIVE addTransients(_, _, _, _)
addTransients(h, childNode, observers, i) ==
    IF i > Len(observers) THEN h
    ELSE addTransients(observeTransient(h, childNode, observers[i]),
                       childNode, observers, i + 1)

\* addTransientObservers that looks at the parent alone, not at its ancestors
addTransientObserversOfParent(h0, h, childNode, parent, steps) ==
    IF parent = Null THEN h
    ELSE addTransients(h, childNode, subtreeObservers(h, parent), 1)

\* The while (parent) loop of removeChild. Along a cyclic parent chain it
\* never ends: the heap is then left as it was when the loop was entered.
RECURSIVE addTransientObservers(_, _, _, _, _)
addTransientObservers(h0, h, childNode, parent, steps) ==
    IF parent = Null THEN h
    ELSE IF steps >= NumNodes THEN [h0 EXCEPT !.diverged = TRUE]
    ELSE addTransientObservers(
             h0, addTransients(h, childNode, subtreeObservers(h, parent), 1),
             childNode, h.parentNode[parent], steps + 1)

\* "Queue mutation record" of removeChild
removeChildRecord(h, this, childNode, suppressObservers) ==
    IF ~suppressObservers
    THEN queueMutationRecord(h,
             MutationRecord(this, <<>>, <<childNode>>,
                            h.previousSibling[childNode],
                            h.nextSibling[childNode]))
    ELSE h

\* "Add transient registered observers to detect changes in the removed
\* subtree": the walk starts at this
removeChildObserve(h, this, childNode) ==
    addTransientObservers(h, h, childNode, this, 0)

\* removeChildUnlink that leaves childNode.parentNode as it was
removeChildUnlinkKeepParent(h, this, childNode, index) ==
    updateSiblings(
        updateFirstLast([h EXCEPT !.childNodes[this] = SpliceOut(@, index)], this),
        childNode, index)

\* "Remove the node": the last four statements of removeChild
removeChildUnlink(h, this, childNode, index) ==
    updateSiblings(
        updateFirstLast([h EXCEPT !.parentNode[childNode] = Null,
                                  !.childNodes[this] = SpliceOut(@, index)],
                        this),
        childNode, index)

\* removeChild once the ancestor walk has been made
removeChildObserved(h, this, childNode, index) ==
    IF h.diverged THEN [h |-> h, ret |-> Null, exit |-> "diverged"]
    ELSE [h |-> removeChildUnlink(h, this, childNode, index),
          ret |-> childNode, exit |-> "done"]

\* removeChild once the ranges have been updated
removeChildUpdated(h, this, childNode, index, suppressObservers) ==
    IF h.diverged THEN [h |-> h, ret |-> Null, exit |-> "diverged"]
    ELSE removeChildObserved(
             removeChildObserve(
                 removeChildRecord(h, this, childNode, suppressObservers),
                 this, childNode),
             this, childNode, index)

\* removeChild once the index of childNode is known
removeChildAt(h, this, childNode, index, suppressObservers) ==
    IF index < 0 THEN [h |-> h, ret |-> Null, exit |-> "index"]
    ELSE removeChildUpdated(
             removeChildUpdateRanges(h, this, childNode, index, 1),
             this, childNode, index, suppressObservers)

removeChild(h, this, childNode, suppressObservers) ==
    removeChildAt(h, this, childNode, IndexOf(h.childNodes[this], childNode),
                  suppressObservers)

\* ------------------------------------------------------------- insertBefore
\* insertBeforeUpdateRange that also moves the points at the insertion index
insertBeforeUpdateRangeFromIndex(this, index, range) ==
    LET r1 == IF range.startContainer = this /\ range.startOffset >= index
              THEN [range EXCEPT !.startOffset = @ + 1]
              ELSE range
    IN  IF r1.endContainer = this /\ r1.endOffset >= index
        THEN [r1 EXCEPT !.endOffset = @ + 1]
        ELSE r1

\* Body of the "Update ranges" loop of insertBefore for one range
insertBeforeUpdateRange(this, index, range) ==
    LET r1 == IF range.startContainer = this /\ range.startOffset > index
              THEN [range EXCEPT !.startOffset = @ + 1]
              ELSE range
    IN  IF r1.endContainer = this /\ r1.endOffset > index
        THEN [r1 EXCEPT !.endOffset = @ + 1]
        ELSE r1

\* The "Update ranges" loop of insertBefore
insertBeforeUpdateRanges(h, this, index) ==
    [h EXCEPT !.ranges =
        [i \in 1..Len(h.ranges) |-> insertBeforeUpdateRange(this, index, h.ranges[i])]]

\* "Insert the node": the last statements of insertBefore
insertBeforeLink(h, this, newNode, index) ==
    updateSiblings(
        updateFirstLast([h EXCEPT !.parentNode[newNode] = this,
                                  !.childNodes[this] = SpliceIn(@, index, newNode)],
                        this),
        newNode, index)

\* insertBeforeReference without the fix: the new node stays the reference
insertBeforeReferenceUnfixed(h, newNode, referenceNode) == referenceNode

\* insertBeforeReference that takes the sibling on the wrong side
insertBeforeReferencePrevious(h, newNode, referenceNode) ==
    IF referenceNode = newNode THEN h.previousSibling[newNode] ELSE referenceNode

\* "Fix using the new node as a reference"
insertBeforeReference(h, newNode, referenceNode) ==
    IF referenceNode = newNode THEN h.nextSibling[newNode] ELSE referenceNode

\* "Already there: detach"
insertBeforeDetach(h, newNode, suppressObservers) ==
    IF h.parentNode[newNode] # Null
    THEN removeChild(h, h.parentNode[newNode], newNode, suppressObservers).h
    ELSE h

\* "Check index of the reference node"
insertBeforeIndex(h, this, referenceNode) ==
    IF referenceNode # Null
    THEN IndexOf(h.childNodes[this], referenceNode)
    ELSE Len(h.childNodes[this])

\* "Queue mutation record" of insertBefore
insertBeforeRecord(h, this, newNode, referenceNode, suppressObservers) ==
    IF ~suppressObservers
    THEN queueMutationRecord(h,
             MutationRecord(this, <<newNode>>, <<>>,
                            IF referenceNode # Null
                            THEN h.previousSibling[referenceNode]
                            ELSE Null,
                            referenceNode))
    ELSE h

\* insertBefore once the index of the insertion is known
insertBeforeAt(h, this, newNode, referenceNode, index, suppressObservers) ==
    IF index < 0 THEN [h |-> h, ret |-> Null, exit |-> "index"]
    ELSE [h |-> insertBeforeLink(
                    insertBeforeRecord(insertBeforeUpdateRanges(h, this, index),
                                       this, newNode, referenceNode,
                                       suppressObservers),
                    this, newNode, index),
          ret |-> newNode, exit |-> "done"]

\* insertBefore once the new node has been detached
insertBeforeDetached(h, this, newNode, referenceNode, suppressObservers) ==
    IF h.diverged THEN [h |-> h, ret |-> Null, exit |-> "diverged"]
    ELSE insertBeforeAt(h, this, newNode, referenceNode,
                        insertBeforeIndex(h, this, referenceNode),
                        suppressObservers)

insertBefore(h, this, newNode, referenceNode0, suppressObservers) ==
    IF referenceNode0 # Null /\ h.parentNode[referenceNode0] # this
    THEN [h |-> h, ret |-> Null, exit |-> "reference"]
    ELSE insertBeforeDetached(
             insertBeforeDetach(h, newNode, suppressObservers),
             this, newNode, insertBeforeReference(h, newNode, referenceNode0),
             suppressObservers)

appendChild(h, this, childNode) == insertBefore(h, this, childNode, Null, FALSE)

\* ------------------------------------------------------------- replaceChild
\* "Get reference node for insert"
replaceChildReference(h, newChild, oldChild) ==
    IF h.nextSibling[oldChild] = newChild
    THEN h.nextSibling[newChild]
    ELSE h.nextSibling[oldChild]

\* replaceChildInsert that does not suppress the record of the insertion
replaceChildInsertRecorded(h, h1, this, newChild, oldChild) ==
    insertBefore(h1, this, newChild, replaceChildReference(h, newChild, oldChild), FALSE)

\* "Insert new child": the call of insertBefore in replaceChild, made on the
\* heap h1 that "Remove old child" left
replaceChildInsert(h, h1, this, newChild, oldChild) ==
    insertBefore(h1, this, newChild, replaceChildReference(h, newChild, oldChild), TRUE)

\* "Create mutation record": made before the old child is removed
replaceChildRecord(h, this, newChild, oldChild) ==
    MutationRecord(this, <<newChild>>, <<oldChild>>,
                   h.previousSibling[oldChild],
                   replaceChildReference(h, newChild, oldChild))

\* "Queue mutation record" of replaceChild, on the heap the insertion left
replaceChildInserted(h, record, oldChild) ==
    IF h.diverged THEN [h |-> h, ret |-> Null, exit |-> "diverged"]
    ELSE [h |-> queueMutationRecord(h, record),
          ret |-> oldChild, exit |-> "done"]

\* replaceChild once the old child has been removed: h is the heap at the
\* call, h1 the heap the removal left
replaceChildRemoved(h, h1, this, newChild, oldChild) ==
    IF h1.diverged THEN [h |-> h1, ret |-> Null, exit |-> "diverged"]
    ELSE replaceChildInserted(
             replaceChildInsert(h, h1, this, newChild, oldChild).h,
             replaceChildRecord(h, this, newChild, oldChild), oldChild)

replaceChild(h, this, newChild, oldChild) ==
    IF h.parentNode[oldChild] # this
    THEN [h |-> h, ret |-> Null, exit |-> "reference"]
    ELSE replaceChildRemoved(h, removeChild(h, this, oldChild, TRUE).h,
                             this, newChild, oldChild)

\* ---------------------------------------------------------------- normalize
\* The text nodes reached from sibling along nextSibling while they are text
\* nodes (the condition of both for loops of normalize), in order. A sibling
\* chain longer than NumNodes is cyclic and the loop never ends.
RECURSIVE contiguousText(_, _, _)
contiguousText(h, sibling, steps) ==
    IF sibling = Null THEN [siblings |-> <<>>, diverged |-> FALSE]
    ELSE IF h.nodeType[sibling] # TEXT_NODE THEN [siblings |-> <<>>, diverged |-> FALSE]
    ELSE IF steps >= NumNodes THEN [siblings |-> <<>>, diverged |-> TRUE]
    ELSE LET rest == contiguousText(h, h.nextSibling[sibling], steps + 1)
         IN  [siblings |-> <<sibling>> \o rest.siblings, diverged |-> rest.diverged]

\* data += sibling.nodeValue over the collected siblings
RECURSIVE concatValues(_, _, _)
concatValues(h, siblings, i) ==
    IF i > Len(siblings) THEN <<>>
    ELSE h.nodeValue[siblings[i]] \o concatValues(h, siblings, i + 1)

\* normalizeFixRange that drops the offset an endpoint had in the sibling
normalizeFixRangeAtLength(this, childNode, sibling, siblingIndex, len, range) ==
    LET r1 == IF range.startContainer = sibling
              THEN setStart(range, childNode, len)
              ELSE range
    IN  IF r1.endContainer = sibling
        THEN setEnd(r1, childNode, len)
        ELSE r1

\* Body of the inner "Fix ranges" loop for one range
normalizeFixRange(this, childNode, sibling, siblingIndex, len, range) ==
    LET r1 == IF range.startContainer = sibling
              THEN setStart(range, childNode, len + range.startOffset)
              ELSE range
        r2 == IF r1.startContainer = this /\ r1.startOffset = siblingIndex
              THEN setStart(r1, childNode, len)
              ELSE r1
        r3 == IF r2.endContainer = sibling
              THEN setEnd(r2, childNode, len + r2.endOffset)
              ELSE r2
    IN  IF r3.endContainer = this /\ r3.endOffset = siblingIndex
        THEN setEnd(r3, childNode, len)
        ELSE r3

\* The outer "Fix ranges" loop: sibling k of the run is visited with
\* siblingIndex = index + k - 1 and len the length accumulated so far.
RECURSIVE normalizeFixRanges(_, _, _, _, _, _, _)
normalizeFixRanges(h, this, childNode, siblings, k, siblingIndex, len) ==
    IF k > Len(siblings) THEN h
    ELSE LET sibling == siblings[k]
             h1 == [h EXCEPT !.ranges =
                       [i \in 1..Len(h.ranges) |->
                           normalizeFixRange(this, childNode, sibling,
                                             siblingIndex, len, h.ranges[i])]]
         IN  normalizeFixRanges(h1, this, childNode, siblings, k + 1,
                                siblingIndex + 1, len + length(h1, sibling))

\* while (siblingsToRemove.length) this.removeChild(siblingsToRemove.shift())
RECURSIVE normalizeRemoveSiblings(_, _, _, _)
normalizeRemoveSiblings(h, this, siblingsToRemove, k) ==
    IF k > Len(siblingsToRemove) \/ h.diverged THEN h
    ELSE normalizeRemoveSiblings(
             removeChild(h, this, siblingsToRemove[k], FALSE).h,
             this, siblingsToRemove, k + 1)

\* normalizeAppend that appends nothing
normalizeAppendNothing(h, childNode, data) == h

\* childNode.appendData(data), made when data is not empty
normalizeAppend(h, childNode, data) ==
    IF data # <<>> THEN appendData(h, childNode, data) ELSE h

\* The merge of the collected run of text nodes into childNode
normalizeMergeRun(h, this, childNode, index, run) ==
    IF run.diverged THEN [h EXCEPT !.diverged = TRUE]
    ELSE normalizeRemoveSiblings(
             normalizeFixRanges(
                 normalizeAppend(h, childNode, concatValues(h, run.siblings, 1)),
                 this, childNode, run.siblings, 1, index, length(h, childNode)),
             this, run.siblings, 1)

\* The else branch of "Delete empty text nodes": merge the text nodes that
\* follow childNode into it.
normalizeMerge(h, this, childNode, index) ==
    normalizeMergeRun(h, this, childNode, index,
                      contiguousText(h, h.nextSibling[childNode], 0))

\* normalize(recurse) and its while (childNode) loop. A recursion deeper than
\* NumNodes has some node twice on the stack and never unwinds.
RECURSIVE normalizeFrom(_, _, _, _)
RECURSIVE normalizeLoop(_, _, _, _, _, _)
RECURSIVE normalizeMerged(_, _, _, _, _, _)
normalizeFrom(h, this, recurse, depth) ==
    IF depth >= NumNodes THEN [h EXCEPT !.diverged = TRUE]
    ELSE normalizeLoop(h, this, h.firstChild[this], 0, recurse, depth)

normalizeLoop(h, this, childNode, index, recurse, depth) ==
    IF h.diverged \/ childNode = Null THEN h
    ELSE IF h.nodeType[childNode] = TEXT_NODE
         THEN IF length(h, childNode) = 0
              THEN IF h.parentNode[childNode] = Null
                   THEN [h EXCEPT !.diverged = TRUE]
                   ELSE normalizeLoop(
                            removeChild(h, h.parentNode[childNode], childNode, FALSE).h,
                            this, h.nextSibling[childNode], index + 1, recurse, depth)
              ELSE normalizeMerged(normalizeMerge(h, this, childNode, index),
                                   this, childNode, index, recurse, depth)
         ELSE IF recurse
              THEN normalizeLoop(normalizeFrom(h, childNode, TRUE, depth + 1),
                                 this, h.nextSibling[childNode], index + 1,
                                 recurse, depth)
              ELSE normalizeLoop(h, this, h.nextSibling[childNode], index + 1,
                                 recurse, depth)

\* The step to childNode.nextSibling after a merge into childNode
normalizeMerged(h, this, childNode, index, recurse, depth) ==
    normalizeLoop(h, this, h.nextSibling[childNode], index + 1, recurse, depth)

normalize(h, this, recurse) == normalizeFrom(h, this, recurse, 0)

\* ------------------------------------------------------------ initial states
\* Contents a text node is constructed with
TextValues == {<<>>, <<"a">>, <<"b">>}

\* Node 1 is the document, the owner of every other node and of the ranges.
\* The other nodes are elements and text nodes (the elements first).
NodeTypes ==
    {t \in [Node -> {ELEMENT_NODE, TEXT_NODE, DOCUMENT_NODE}] :
        /\ t[1] = DOCUMENT_NODE
        /\ \A n \in Node \ {1} : t[n] # DOCUMENT_NODE
        /\ \A n, m \in Node \ {1} :
               n < m /\ t[n] = TEXT_NODE => t[m] = TEXT_NODE}

NodeValues(t, values) ==
    {v \in [Node -> values \cup {<<>>}] :
        \A n \in Node : IF t[n] = TEXT_NODE THEN v[n] \in values ELSE v[n] = <<>>}

\* new Node(type) for every node: nothing is linked
Constructed(t, v) ==
    [nodeType |-> t, nodeValue |-> v,
     parentNode |-> [n \in Node |-> Null],
     nextSibling |-> [n \in Node |-> Null],
     previousSibling |-> [n \in Node |-> Null],
     childNodes |-> [n \in Node |-> <<>>],
     firstChild |-> [n \in Node |-> Null],
     lastChild |-> [n \in Node |-> Null],
     registeredObservers |-> [n \in Node |-> <<>>],
     ranges |-> <<>>, queue |-> <<>>, diverged |-> FALSE]

\* The documents the calls start from are built from the constructed nodes by
\* appendChild, node after node: plan[n] is the node that n is appended to.
\* The document is a root and a text node is a leaf of some parent.
RECURSIVE planReaches(_, _, _, _)
planReaches(plan, n, target, steps) ==
    IF n = Null \/ steps > NumNodes THEN FALSE
    ELSE IF plan[n] = target THEN TRUE
    ELSE planReaches(plan, plan[n], target, steps + 1)

Plans(t) ==
    {plan \in [Node -> NodeOrNull] :
        /\ plan[1] = Null
        /\ \A n \in Node : plan[n] # Null => t[plan[n]] # TEXT_NODE
        /\ \A n \in Node : t[n] = TEXT_NODE => plan[n] # Null
        /\ \A n \in Node : ~planReaches(plan, n, n, 0)}

RECURSIVE build(_, _, _)
build(h, plan, n) ==
    IF n > NumNodes THEN [h EXCEPT !.queue = <<>>]
    ELSE build(IF plan[n] # Null THEN appendChild(h, plan[n], n).h ELSE h,
               plan, n + 1)

DocumentsOf(values) ==
    UNION {UNION {{build(Constructed(t, v), plan, 1) : plan \in Plans(t)} :
                      v \in NodeValues(t, values)} : t \in NodeTypes}

Documents == DocumentsOf(TextValues)

\* ------------------------------------------------------------------ actions
Apply(h) ==
    /\ nodeType' = h.nodeType
    /\ nodeValue' = h.nodeValue
    /\ parentNode' = h.parentNode
    /\ nextSibling' = h.nextSibling
    /\ previousSibling' = h.previousSibling
    /\ childNodes' = h.childNodes
    /\ firstChild' = h.firstChild
    /\ lastChild' = h.lastChild
    /\ registeredObservers' = h.registeredObservers
    /\ ranges' = h.ranges
    /\ queue' = h.queue
    /\ diverged' = h.diverged

\* A call is made while the program runs and the caller has calls left
Call ==
    /\ ~diverged
    /\ calls > 0
    /\ calls' = calls - 1

AppendChild(this, childNode) ==
    /\ Call
    /\ Apply(appendChild(Heap, this, childNode).h)

InsertBefore(this, newNode, referenceNode, suppressObservers) ==
    /\ Call
    /\ Apply(insertBefore(Heap, this, newNode, referenceNode, suppressObservers).h)

RemoveChild(this, childNode, suppressObservers) ==
    /\ Call
    /\ Apply(removeChild(Heap, this, childNode, suppressObservers).h)

ReplaceChild(this, newChild, oldChild) ==
    /\ Call
    /\ Apply(replaceChild(Heap, this, newChild, oldChild).h)

Normalize(this, recurse) ==
    /\ Call
    /\ Apply(normalize(Heap, this, recurse))

Next ==
    \/ \E this, childNode \in Node : AppendChild(this, childNode)
    \/ \E this, newNode \in Node, referenceNode \in NodeOrNull,
          suppressObservers \in BOOLEAN :
           InsertBefore(this, newNode, referenceNode, suppressObservers)
    \/ \E this, childNode \in Node, suppressObservers \in BOOLEAN :
           RemoveChild(this, childNode, suppressObservers)
    \/ \E this, newChild, oldChild \in Node : ReplaceChild(this, newChild, oldChild)
    \/ \E this \in Node, recurse \in BOOLEAN : Normalize(this, recurse)

\* The program starts with heap h
Start(h) ==
    /\ nodeType = h.nodeType
    /\ nodeValue = h.nodeValue
    /\ parentNode = h.parentNode
    /\ nextSibling = h.nextSibling
    /\ previousSibling = h.previousSibling
    /\ childNodes = h.childNodes
    /\ firstChild = h.firstChild
    /\ lastChild = h.lastChild
    /\ registeredObservers = h.registeredObservers
    /\ ranges = h.ranges
    /\ queue = h.queue
    /\ diverged = h.diverged

\* A document without ranges and observers
Init ==
    /\ \E h \in Documents : Start(h)
    /\ calls = MaxCalls

Spec == Init /\ [][Next]_vars

\* ---------------------------------------------------- documents with a range
\* The boundary points of heap h: an offset into the content of a text node,
\* an offset into the child list of any other node
Points(h) ==
    {p \in Node \X (0..NumNodes) :
        p[2] <= (IF h.nodeType[p[1]] = TEXT_NODE
                 THEN Len(h.nodeValue[p[1]])
                 ELSE Len(h.childNodes[p[1]]))}

Range(start, end) ==
    [startContainer |-> start[1], startOffset |-> start[2],
     endContainer |-> end[1], endOffset |-> end[2]]

\* A document with one live range between two of its boundary points
InitRanges ==
    /\ \E h \in DocumentsOf({<<>>, <<"a">>}) : \E start, end \in Points(h) :
           Start([h EXCEPT !.ranges = <<Range(start, end)>>])
    /\ calls = MaxCallsRanges

SpecRanges == InitRanges /\ [][Next]_vars

\* ------------------------------------------------- documents with observers
\* The registration that observer.observe(node, options) leaves on a node
Registered(observer, subtree) ==
    [observer |-> observer,
     options |-> [childList |-> TRUE, subtree |-> subtree],
     transient |-> FALSE]

\* Up to most nodes are observed, each by an observer of its own, for the
\* node alone or for its subtree
Observations(most) ==
    {observed \in [Node -> {"no", "node", "subtree"}] :
        Cardinality({n \in Node : observed[n] # "no"}) <= most}

Observed(h, observed) ==
    [h EXCEPT !.registeredObservers =
        [n \in Node |->
            IF observed[n] = "no" THEN <<>>
            ELSE <<Registered(n, observed[n] = "subtree")>>]]

InitObservers ==
    /\ \E h \in DocumentsOf({<<"a">>}) : \E observed \in Observations(MaxObserved) :
           Start(Observed(h, observed))
    /\ calls = MaxCallsObservers

SpecObservers == InitObservers /\ [][Next]_vars

\* ------------------------------------- documents with a range and an observer
\* A document with a collapsed range and at most one observed node
InitFull ==
    /\ \E h \in DocumentsOf({<<"a">>}) : \E point \in Points(h) :
       \E observed \in Observations(1) :
           Start(Observed([h EXCEPT !.ranges = <<Range(point, point)>>], observed))
    /\ calls = MaxCallsFull

SpecFull == InitFull /\ [][Next]_vars

\* ------------------------------------- documents of texts with a cursor
\* A document whose text nodes have any of the contents, with a collapsed
\* range at one of its boundary points
InitText ==
    /\ \E h \in Documents : \E point \in Points(h) :
           Start([h EXCEPT !.ranges = <<Range(point, point)>>])
    /\ calls = MaxCallsText

SpecText == InitText /\ [][Next]_vars

\* ======================================================================
\* Claims
\* ======================================================================
\* Number of occurrences of n in a child list
Occurrences(seq, n) == Cardinality({k \in 1..Len(seq) : seq[k] = n})

\* The linkage of heap h is consistent: parentNode agrees with membership in
\* exactly one child list, and the cached references follow the child lists.
LinkageConsistent(h) ==
    /\ \A n \in Node :
           IF h.parentNode[n] # Null
           THEN /\ Occurrences(h.childNodes[h.parentNode[n]], n) = 1
                /\ \A q \in Node \ {h.parentNode[n]} :
                       Occurrences(h.childNodes[q], n) = 0
           ELSE /\ \A q \in Node : Occurrences(h.childNodes[q], n) = 0
                /\ h.nextSibling[n] = Null
                /\ h.previousSibling[n] = Null
    /\ \A q \in Node :
           LET c == h.childNodes[q]
           IN  /\ h.firstChild[q] = (IF c = <<>> THEN Null ELSE c[1])
               /\ h.lastChild[q] = (IF c = <<>> THEN Null ELSE c[Len(c)])
               /\ \A k \in 1..Len(c) :
                      /\ h.nextSibling[c[k]] = (IF k < Len(c) THEN c[k + 1] ELSE Null)
                      /\ h.previousSibling[c[k]] = (IF k > 1 THEN c[k - 1] ELSE Null)

\* C1: in every state reached by appendChild / insertBefore / removeChild /
\* replaceChild (and normalize) calls, successful or failing, every node with
\* a parent occurs exactly once in that parent's childNodes and in no other
\* list, every node without a parent occurs in no list and has no siblings,
\* and firstChild / lastChild / nextSibling / previousSibling follow the
\* literal order of childNodes.
C1_LinkageConsistency == LinkageConsistent(Heap)

\* C1 witness: calls have been made and left a parent with two children that
\* are not in the order they were appended in when the document was built
C1_Witness ==
    /\ calls < MaxCalls
    /\ ~diverged
    /\ \E q \in Node :
           /\ Len(childNodes[q]) >= 2
           /\ childNodes[q][1] > childNodes[q][2]

\* A call that came back with null (a call that never comes back reports
\* nothing)
ReturnedNull(r) == r.ret = Null /\ r.exit # "diverged"

\* C2: a call of insertBefore, removeChild or replaceChild that reports
\* failure by returning null leaves every field of every node, every range,
\* every registration list and the queue as they were before the call, and
\* no call of insertBefore - made by the caller or by replaceChild - leaves by
\* the defensive "index < 0" exit.
C2_FailureIsAllOrNothing ==
    (calls > 0 /\ ~diverged) =>
        /\ \A this, newNode \in Node, referenceNode \in NodeOrNull,
              suppressObservers \in BOOLEAN :
               LET r == insertBefore(Heap, this, newNode, referenceNode,
                                     suppressObservers)
               IN  /\ r.exit # "index"
                   /\ ReturnedNull(r) => r.h = Heap
        /\ \A this, childNode \in Node, suppressObservers \in BOOLEAN :
               LET r == removeChild(Heap, this, childNode, suppressObservers)
               IN  ReturnedNull(r) => r.h = Heap
        /\ \A this, newChild, oldChild \in Node :
               LET r == replaceChild(Heap, this, newChild, oldChild)
                   h1 == removeChild(Heap, this, oldChild, TRUE).h
               IN  /\ ReturnedNull(r) => r.h = Heap
                   /\ (parentNode[oldChild] = this /\ ~h1.diverged) =>
                          replaceChildInsert(Heap, h1, this, newChild,
                                             oldChild).exit # "index"

\* C2 witness: after a call, insertBefore is refused for a node that has a
\* parent (which a partial execution would have detached) and replaceChild is
\* refused for an old child that is some other parent's child
C2_Witness ==
    /\ calls > 0
    /\ calls < MaxCalls
    /\ ~diverged
    /\ \E this, newNode, referenceNode \in Node :
           /\ parentNode[newNode] # Null
           /\ parentNode[referenceNode] \notin {Null, this}
           /\ ReturnedNull(insertBefore(Heap, this, newNode, referenceNode, FALSE))
    /\ \E this, newChild, oldChild \in Node :
           /\ parentNode[oldChild] \notin {Null, this}
           /\ ReturnedNull(replaceChild(Heap, this, newChild, oldChild))

\* A boundary point (container, offset) of heap h is valid: the offset lies
\* within the content of a text node, within the child list of another node
ValidPoint(h, container, offset) ==
    /\ offset >= 0
    /\ IF h.nodeType[container] = TEXT_NODE
       THEN offset <= Len(h.nodeValue[container])
       ELSE offset <= Len(h.childNodes[container])

RangesValid(h) ==
    \A i \in 1..Len(h.ranges) :
        /\ ValidPoint(h, h.ranges[i].startContainer, h.ranges[i].startOffset)
        /\ ValidPoint(h, h.ranges[i].endContainer, h.ranges[i].endOffset)

\* C3: the start and the end of every live range, valid at first, are valid
\* boundary points after any sequence of appendChild / insertBefore /
\* removeChild / replaceChild / normalize calls.
C3_RangesStayValid == RangesValid(Heap)

\* The nodes of the subtree of c, by the child lists: c and its descendants
RECURSIVE SubtreeFrom(_, _, _)
SubtreeFrom(h, nodes, rounds) ==
    IF rounds = 0 THEN nodes
    ELSE SubtreeFrom(h, nodes \cup {m \in Node : \E n \in nodes :
                                        \E k \in 1..Len(h.childNodes[n]) :
                                            h.childNodes[n][k] = m},
                     rounds - 1)

Subtree(h, c) == SubtreeFrom(h, {c}, NumNodes)

\* 0-based position of c in a child list in which it occurs once
PositionIn(seq, c) == (CHOOSE k \in 1..Len(seq) : seq[k] = c) - 1

\* What the removal of child c at index i of P makes of a boundary point
PointAfterRemove(h, P, c, i, container, offset) ==
    IF container \in Subtree(h, c) THEN <<P, i>>
    ELSE IF container = P /\ offset > i THEN <<P, offset - 1>>
    ELSE <<container, offset>>

\* C4: when removeChild(P, c) succeeds with c at index i of P, every start
\* and every end of a live range that lies in c or in a descendant of c
\* becomes (P, i), one at (P, o) with o > i becomes (P, o - 1), and any other
\* is unchanged.
C4_RemoveChildRanges ==
    \A P, c \in Node :
        (~diverged /\ parentNode[c] = P) =>
            \A suppressObservers \in BOOLEAN :
                LET r == removeChild(Heap, P, c, suppressObservers)
                    i == PositionIn(childNodes[P], c)
                IN  r.ret # Null =>
                        /\ Len(r.h.ranges) = Len(ranges)
                        /\ \A k \in 1..Len(ranges) :
                               /\ <<r.h.ranges[k].startContainer, r.h.ranges[k].startOffset>>
                                    = PointAfterRemove(Heap, P, c, i,
                                          ranges[k].startContainer, ranges[k].startOffset)
                               /\ <<r.h.ranges[k].endContainer, r.h.ranges[k].endOffset>>
                                    = PointAfterRemove(Heap, P, c, i,
                                          ranges[k].endContainer, ranges[k].endOffset)

\* C4 witness: after a call, a removal succeeds whose node holds the start of
\* the range in a proper descendant while the end of the range lies on the
\* parent behind the removed child
C4_Witness ==
    /\ calls < MaxCallsRanges
    /\ ~diverged
    /\ \E P, c \in Node :
           /\ parentNode[c] = P
           /\ removeChild(Heap, P, c, FALSE).ret = c
           /\ ranges[1].startContainer \in Subtree(Heap, c) \ {c}
           /\ ranges[1].endContainer = P
           /\ ranges[1].endOffset > PositionIn(childNodes[P], c)

\* What the insertion of a node at index i of P makes of a boundary point
PointAfterInsert(P, i, container, offset) ==
    IF container = P /\ offset > i THEN <<P, offset + 1>>
    ELSE <<container, offset>>

\* C5: when insertBefore(P, n, ref) succeeds for a node n without parent and
\* n ends up at index i of P, every start and every end of a live range at
\* (P, o) with o > i becomes (P, o + 1) and any other is unchanged.
C5_InsertBeforeRanges ==
    \A n \in Node :
        (~diverged /\ parentNode[n] = Null) =>
            \A P \in Node, referenceNode \in NodeOrNull, suppressObservers \in BOOLEAN :
                LET r == insertBefore(Heap, P, n, referenceNode, suppressObservers)
                    i == PositionIn(r.h.childNodes[P], n)
                IN  r.ret # Null =>
                        /\ Len(r.h.ranges) = Len(ranges)
                        /\ \A k \in 1..Len(ranges) :
                               /\ <<r.h.ranges[k].startContainer, r.h.ranges[k].startOffset>>
                                    = PointAfterInsert(P, i,
                                          ranges[k].startContainer, ranges[k].startOffset)
                               /\ <<r.h.ranges[k].endContainer, r.h.ranges[k].endOffset>>
                                    = PointAfterInsert(P, i,
                                          ranges[k].endContainer, ranges[k].endOffset)

\* C5 witness: after a call, a node without parent can be inserted before a
\* child of P while the range starts on P behind the insertion index and ends
\* on P at the insertion index
C5_Witness ==
    /\ calls < MaxCallsRanges
    /\ ~diverged
    /\ \E P, n, referenceNode \in Node :
           /\ parentNode[n] = Null
           /\ parentNode[referenceNode] = P
           /\ insertBefore(Heap, P, n, referenceNode, FALSE).ret = n
           /\ ranges[1].startContainer = P
           /\ ranges[1].startOffset > PositionIn(childNodes[P], referenceNode)
           /\ ranges[1].endContainer = P
           /\ ranges[1].endOffset = PositionIn(childNodes[P], referenceNode)

\* C6: a successful replaceChild(P, newChild, oldChild) appends exactly one
\* record to the queue: target P, addedNodes [newChild], removedNodes
\* [oldChild], previousSibling the previous sibling of oldChild before the
\* call, nextSibling the next sibling of oldChild before the call, or that of
\* newChild when oldChild's next sibling is newChild.
C6_ReplaceChildOneRecord ==
    \A P, oldChild \in Node :
        (calls > 0 /\ ~diverged /\ parentNode[oldChild] = P) =>
            \A newChild \in Node :
                LET r == replaceChild(Heap, P, newChild, oldChild)
                IN  r.ret # Null =>
                        r.h.queue = queue \o
                            <<[type |-> "childList",
                               target |-> P,
                               addedNodes |-> <<newChild>>,
                               removedNodes |-> <<oldChild>>,
                               previousSibling |-> previousSibling[oldChild],
                               nextSibling |->
                                   IF nextSibling[oldChild] = newChild
                                   THEN nextSibling[newChild]
                                   ELSE nextSibling[oldChild]]>>

\* C6 witness: after a call, a child with siblings on both sides is replaced
\* by a node attached under another parent, and some child is replaced by its
\* own next sibling
C6_Witness ==
    /\ calls > 0
    /\ calls < MaxCalls
    /\ ~diverged
    /\ \E P, newChild, oldChild \in Node :
           /\ parentNode[oldChild] = P
           /\ parentNode[newChild] \notin {Null, P}
           /\ replaceChild(Heap, P, newChild, oldChild).ret = oldChild
    /\ \E P, newChild, oldChild \in Node :
           /\ parentNode[oldChild] = P
           /\ nextSibling[oldChild] = newChild
           /\ replaceChild(Heap, P, newChild, oldChild).ret = oldChild

\* C7 as claimed: for every parent P and node n, insertBefore(P, n, n) and
\* insertBefore(P, n, n.nextSibling) from the same state return the same
\* value and leave the same linkage, ranges and queue.
C7_SelfReferenceAnyNode ==
    \A P, n \in Node :
        ~diverged =>
            \A suppressObservers \in BOOLEAN :
                insertBefore(Heap, P, n, n, suppressObservers)
                    = insertBefore(Heap, P, n, nextSibling[n], suppressObservers)

\* C7 amended: for every parent P and every child n of P, insertBefore(P, n, n)
\* and insertBefore(P, n, n.nextSibling) from the same state return the same
\* value and leave the same linkage, ranges, registrations and queue.
C7_SelfReferenceOfChild ==
    \A P, n \in Node :
        (~diverged /\ parentNode[n] = P) =>
            \A suppressObservers \in BOOLEAN :
                insertBefore(Heap, P, n, n, suppressObservers)
                    = insertBefore(Heap, P, n, nextSibling[n], suppressObservers)

\* C7 witness: after a call, a child with a next sibling, holding the range,
\* under an observed parent, is inserted before itself and the call succeeds
C7_Witness ==
    /\ calls < MaxCallsFull
    /\ ~diverged
    /\ \E P, n \in Node :
           /\ parentNode[n] = P
           /\ nextSibling[n] # Null
           /\ ranges[1].startContainer = n
           /\ subtreeObservers(Heap, P) # <<>>
           /\ insertBefore(Heap, P, n, n, FALSE).ret = n

\* The linkage fields of every node
Linkage(h) ==
    [parentNode |-> h.parentNode, childNodes |-> h.childNodes,
     firstChild |-> h.firstChild, lastChild |-> h.lastChild,
     nextSibling |-> h.nextSibling, previousSibling |-> h.previousSibling]

\* C8: for a node n without parent and any P and reference for which
\* insertBefore(P, n, reference) succeeds, removeChild(P, n) right after it
\* leaves the linkage fields of every node as they were before the insert.
C8_InsertRemoveRoundTrip ==
    \A n \in Node :
        (calls > 0 /\ ~diverged /\ parentNode[n] = Null) =>
            \A P \in Node, referenceNode \in NodeOrNull :
                LET inserted == insertBefore(Heap, P, n, referenceNode, FALSE)
                IN  inserted.ret # Null =>
                        Linkage(removeChild(inserted.h, P, n, FALSE).h) = Linkage(Heap)

\* The proper descendants of n, by the child lists
Descendants(h, n) ==
    SubtreeFrom(h, {h.childNodes[n][k] : k \in 1..Len(h.childNodes[n])}, NumNodes)

\* The parent relation is a forest: no node is its own descendant
Acyclic(h) == \A n \in Node : n \notin Descendants(h, n)

\* The node a and its ancestors, by the child lists
AncestorsOrSelf(h, a) == {q \in Node : a \in Subtree(h, q)}

\* Node d has, behind the registrations it had in heap h, a transient
\* registration in heap h2 with the observer and options of registration reg
HasAdditionalTransient(h, h2, d, reg) ==
    \E k \in (Len(h.registeredObservers[d]) + 1)..Len(h2.registeredObservers[d]) :
        h2.registeredObservers[d][k] =
            [observer |-> reg.observer, options |-> reg.options, transient |-> TRUE]

\* C9 as claimed: when removeChild(P, c) succeeds while P or an ancestor of P
\* holds a registration for the subtree, every node of the subtree of c - c
\* and each of its descendants - carries an additional transient registration
\* with the observer and options of that registration after the call.
C9_TransientsOnWholeSubtree ==
    \A P, c \in Node :
        (~diverged /\ parentNode[c] = P) =>
            \A suppressObservers \in BOOLEAN :
                LET r == removeChild(Heap, P, c, suppressObservers)
                IN  r.ret # Null =>
                        \A a \in AncestorsOrSelf(Heap, P) :
                        \A j \in 1..Len(registeredObservers[a]) :
                            registeredObservers[a][j].options.subtree =>
                                \A d \in Subtree(Heap, c) :
                                    HasAdditionalTransient(Heap, r.h, d,
                                                           registeredObservers[a][j])

\* C9 amended: when removeChild(P, c) succeeds while P or an ancestor of P
\* holds a registration for the subtree, c itself carries an additional
\* transient registration with the observer and options of that registration
\* after the call, and the registrations of the descendants of c are unchanged.
C9_TransientsOnRemovedNode ==
    \A P, c \in Node :
        (~diverged /\ parentNode[c] = P) =>
            \A suppressObservers \in BOOLEAN :
                LET r == removeChild(Heap, P, c, suppressObservers)
                IN  r.ret # Null =>
                        /\ \A a \in AncestorsOrSelf(Heap, P) :
                           \A j \in 1..Len(registeredObservers[a]) :
                               registeredObservers[a][j].options.subtree =>
                                   HasAdditionalTransient(Heap, r.h, c,
                                                          registeredObservers[a][j])
                        /\ \A d \in Subtree(Heap, c) \ {c} :
                               r.h.registeredObservers[d] = registeredObservers[d]

\* C9 witness: after a call, a node with a descendant can be removed from a
\* parent whose own parent observes its subtree
C9_Witness ==
    /\ calls < MaxCallsObservers
    /\ ~diverged
    /\ \E P, c \in Node :
           /\ parentNode[c] = P
           /\ childNodes[c] # <<>>
           /\ parentNode[P] # Null
           /\ subtreeObservers(Heap, parentNode[P]) # <<>>
           /\ removeChild(Heap, P, c, FALSE).ret = c

\* The normal form of a child list: from child k on, the entries (node,
\* content) that follow the entries so far. A text child joins the entry of
\* the text run it continues, opens an entry when it is the first non-empty
\* text node of its run, and is dropped when the run has been empty so far;
\* any other child is an entry of its own and ends the run.
RECURSIVE NormalEntries(_, _, _, _, _)
NormalEntries(h, children, k, entries, inRun) ==
    IF k > Len(children) THEN entries
    ELSE LET child == children[k]
             text == h.nodeValue[child]
             last == Len(entries)
         IN  IF h.nodeType[child] # TEXT_NODE
             THEN NormalEntries(h, children, k + 1,
                                Append(entries, [node |-> child, text |-> <<>>]), FALSE)
             ELSE IF inRun
             THEN NormalEntries(h, children, k + 1,
                                [entries EXCEPT ![last].text = @ \o text], TRUE)
             ELSE IF text # <<>>
             THEN NormalEntries(h, children, k + 1,
                                Append(entries, [node |-> child, text |-> text]), TRUE)
             ELSE NormalEntries(h, children, k + 1, entries, FALSE)

NormalForm(h, N) == NormalEntries(h, h.childNodes[N], 1, <<>>, FALSE)

\* Node N of heap h2 has the child list that is the normal form of its child
\* list in heap h, every text child with the content of its run
IsNormalFormOf(h, h2, N) ==
    LET entries == NormalForm(h, N)
    IN  /\ h2.childNodes[N] = [k \in 1..Len(entries) |-> entries[k].node]
        /\ \A k \in 1..Len(entries) :
               h.nodeType[entries[k].node] = TEXT_NODE =>
                   h2.nodeValue[entries[k].node] = entries[k].text

NonText(h, nodes) == {n \in nodes : h.nodeType[n] # TEXT_NODE}

\* C10: after normalize(N) with recurse = true, N and every non-text
\* descendant of N have as child list the normal form of their child list
\* before the call: the non-text children in their order, every maximal run
\* of text children replaced by its first non-empty text node with the
\* contents of the run concatenated, or by nothing when the run is empty.
\* With recurse = false that holds for N alone and the child lists of the
\* non-text children of N are untouched.
C10_NormalizeNormalForm ==
    \A N \in Node :
        (calls > 0 /\ ~diverged) =>
            /\ LET h2 == normalize(Heap, N, TRUE)
               IN  ~h2.diverged =>
                       \A D \in {N} \cup NonText(Heap, Descendants(Heap, N)) :
                           IsNormalFormOf(Heap, h2, D)
            /\ LET h2 == normalize(Heap, N, FALSE)
               IN  ~h2.diverged =>
                       /\ IsNormalFormOf(Heap, h2, N)
                       /\ \A k \in 1..Len(childNodes[N]) :
                              nodeType[childNodes[N][k]] # TEXT_NODE =>
                                  h2.childNodes[childNodes[N][k]]
                                      = childNodes[childNodes[N][k]]


\* The children of P are exactly three text nodes, without children of their
\* own, with the contents "a", "" and "b"
ThreeTexts(h, P) ==
    /\ Len(h.childNodes[P]) = 3
    /\ \A k \in 1..3 :
           /\ h.nodeType[h.childNodes[P][k]] = TEXT_NODE
           /\ h.childNodes[h.childNodes[P][k]] = <<>>
    /\ h.nodeValue[h.childNodes[P][1]] = <<"a">>
    /\ h.nodeValue[h.childNodes[P][2]] = <<>>
    /\ h.nodeValue[h.childNodes[P][3]] = <<"b">>

\* Heap h2 has the first of the three text children of P in heap h as the
\* single child of P, with content "ab", and both ends of the cursor in it
\* at offset 1
MergedWithCursorAfterA(h, h2, P) ==
    /\ h2.childNodes[P] = <<h.childNodes[P][1]>>
    /\ h2.nodeValue[h.childNodes[P][1]] = <<"a", "b">>
    /\ h2.ranges = <<Range(<<h.childNodes[P][1], 1>>, <<h.childNodes[P][1], 1>>)>>

\* C11 as claimed: normalize on a parent whose children are three text nodes
\* "a", "", "b", with the cursor put at offset 1 inside the second, empty
\* child, yields a single child "ab" with the cursor inside it at offset 1.
\* (An empty text node has no offset 1: the cursor is written into the heap
\* the call is made on.)
C11_CursorAtOffsetOne ==
    \A P \in Node :
        (~diverged /\ ThreeTexts(Heap, P)) =>
            \A recurse \in BOOLEAN :
                LET h == [Heap EXCEPT !.ranges =
                             <<Range(<<childNodes[P][2], 1>>, <<childNodes[P][2], 1>>)>>]
                    h2 == normalize(h, P, recurse)
                IN  ~h2.diverged => MergedWithCursorAfterA(h, h2, P)

\* C11 amended: normalize on a parent whose children are three text nodes
\* "a", "", "b", with the cursor at offset 0 inside the second, empty child,
\* yields a single child "ab" with the cursor inside it at offset 1.
C11_CursorInEmptyChild ==
    \A P \in Node :
        (~diverged /\ ThreeTexts(Heap, P)
             /\ ranges = <<Range(<<childNodes[P][2], 0>>, <<childNodes[P][2], 0>>)>>) =>
            \A recurse \in BOOLEAN :
                LET h2 == normalize(Heap, P, recurse)
                IN  ~h2.diverged => MergedWithCursorAfterA(Heap, h2, P)

\* C11 witness: a call has left a parent with the three text children and the
\* cursor inside the second, and normalize on it returns
C11_Witness ==
    /\ calls < MaxCallsText
    /\ ~diverged
    /\ \E P \in Node :
           /\ ThreeTexts(Heap, P)
           /\ queue # <<>>
           /\ ranges = <<Range(<<childNodes[P][2], 0>>, <<childNodes[P][2], 0>>)>>
           /\ ~normalize(Heap, P, TRUE).diverged

\* The nodes reached from the given nodes by following parentNode any number
\* of times, the given nodes included
RECURSIVE ParentClosure(_, _, _)
ParentClosure(h, nodes, rounds) ==
    IF rounds = 0 THEN nodes
    ELSE ParentClosure(h, nodes \cup ({h.parentNode[n] : n \in nodes} \ {Null}),
                       rounds - 1)

\* C12: in every state reached by the mutation operations and for all nodes
\* a and x, a.contains(x) returns, and returns true exactly when a is x or is
\* reached from x by following parentNode one or more times; a.contains(null)
\* returns false.
C12_ContainsIsAncestorOrSelf ==
    ~diverged =>
        \A a \in Node :
            /\ ~containsDiverges(Heap, a, Null)
            /\ ~contains(Heap, a, Null)
            /\ \A x \in Node :
                   /\ ~containsDiverges(Heap, a, x)
                   /\ contains(Heap, a, x) <=> a \in ParentClosure(Heap, {x}, NumNodes)

IsDetachRecord(record, Q, n) ==
    /\ record.target = Q
    /\ record.removedNodes = <<n>>
    /\ record.addedNodes = <<>>

\* C14: whenever a successful insertBefore(P, n, ref, suppress) is called with
\* a node n that has a parent Q, the first record the call enqueues is the
\* record of the detach (target Q, removedNodes [n]), whatever the value of
\* suppress; likewise for the insertion that replaceChild makes of a newChild
\* that is attached.
C14_DetachIsNeverSuppressed ==
    \A P, n \in Node :
        (calls > 0 /\ ~diverged /\ parentNode[n] # Null) =>
            /\ \A referenceNode \in NodeOrNull, suppressObservers \in BOOLEAN :
                   LET r == insertBefore(Heap, P, n, referenceNode, suppressObservers)
                   IN  r.ret # Null =>
                           /\ Len(r.h.queue) > Len(queue)
                           /\ IsDetachRecord(r.h.queue[Len(queue) + 1], parentNode[n], n)
            /\ \A oldChild \in Node \ {n} :
                   LET r == replaceChild(Heap, P, n, oldChild)
                   IN  r.ret # Null =>
                           /\ Len(r.h.queue) > Len(queue)
                           /\ IsDetachRecord(r.h.queue[Len(queue) + 1], parentNode[n], n)

\* C15: the last record enqueued by a successful insertBefore(P, n, ref) that
\* is not suppressed (appendChild included) has target P, addedNodes [n], as
\* nextSibling the node that follows n among P's children after the call and
\* as previousSibling the node that precedes n there - P's former last child
\* when n is appended - or none when n has become the last or the first child.
C15_InsertionRecordSiblings ==
    \A P, n \in Node :
        (calls > 0 /\ ~diverged) =>
            \A referenceNode \in NodeOrNull :
                LET r == insertBefore(Heap, P, n, referenceNode, FALSE)
                    record == r.h.queue[Len(r.h.queue)]
                    i == PositionIn(r.h.childNodes[P], n)
                IN  r.ret # Null =>
                        /\ record.target = P
                        /\ record.addedNodes = <<n>>
                        /\ record.removedNodes = <<>>
                        /\ record.nextSibling = At(r.h.childNodes[P], i + 1)
                        /\ record.previousSibling = At(r.h.childNodes[P], i - 1)

\* P and its ancestors by parentNode, from P upwards (at most rounds of them)
RECURSIVE ChainFrom(_, _, _)
ChainFrom(h, P, rounds) ==
    IF P = Null \/ rounds = 0 THEN <<>>
    ELSE <<P>> \o ChainFrom(h, h.parentNode[P], rounds - 1)

IsForSubtree(registration) == registration.options.subtree

\* A transient registration for each of the registrations of the list that
\* are for the subtree, in the order of the list
TransientCopies(registrations) ==
    LET forSubtree == SelectSeq(registrations, IsForSubtree)
    IN  [k \in 1..Len(forSubtree) |->
            [observer |-> forSubtree[k].observer,
             options |-> forSubtree[k].options,
             transient |-> TRUE]]

\* The transient registrations for the nodes of the chain from the k-th on
RECURSIVE TransientsAlong(_, _, _)
TransientsAlong(h, chain, k) ==
    IF k > Len(chain) THEN <<>>
    ELSE TransientCopies(h.registeredObservers[chain[k]])
             \o TransientsAlong(h, chain, k + 1)

\* After the removal of c from P that left heap h2, the registrations of c
\* are those it had, followed by one transient registration for each subtree
\* registration of P and of the ancestors of P, from P upwards; the lists of
\* the other nodes are unchanged
TransientsAppended(h, h2, P, c) ==
    /\ h2.registeredObservers[c] =
           h.registeredObservers[c] \o TransientsAlong(h, ChainFrom(h, P, NumNodes), 1)
    /\ \A n \in Node \ {c} : h2.registeredObservers[n] = h.registeredObservers[n]

\* C16 as claimed: a successful removeChild(P, c), suppressed or not, appends to
\* c's registrations exactly one transient registration for each subtree
\* registration of P and of P's ancestors, from P upwards, and nothing else;
\* when there is no such registration c's list is unchanged and no transient
\* registration exists on c.
C16_NoTransientWithoutSubtreeObserver ==
    \A P, c \in Node :
        (~diverged /\ parentNode[c] = P) =>
            \A suppressObservers \in BOOLEAN :
                LET r == removeChild(Heap, P, c, suppressObservers)
                IN  r.ret # Null =>
                        /\ TransientsAppended(Heap, r.h, P, c)
                        /\ TransientsAlong(Heap, ChainFrom(Heap, P, NumNodes), 1) = <<>> =>
                               \A k \in 1..Len(r.h.registeredObservers[c]) :
                                   ~r.h.registeredObservers[c][k].transient

\* C16 amended: a successful removeChild(P, c), suppressed or not, appends to
\* c's registrations exactly one transient registration for each subtree
\* registration of P and of P's ancestors, from P upwards, and nothing else;
\* when there is no such registration every registration list is unchanged.
C16_TransientsAppendedInOrder ==
    \A P, c \in Node :
        (~diverged /\ parentNode[c] = P) =>
            \A suppressObservers \in BOOLEAN :
                LET r == removeChild(Heap, P, c, suppressObservers)
                IN  r.ret # Null =>
                        /\ TransientsAppended(Heap, r.h, P, c)
                        /\ TransientsAlong(Heap, ChainFrom(Heap, P, NumNodes), 1) = <<>> =>
                               r.h.registeredObservers = registeredObservers

\* C16 witness: a call has moved c, with the transient registration it got on
\* the way, beneath a parent P that is observed for the node alone and whose
\* own parent is observed for the subtree, and c can be removed from P
C16_Witness ==
    /\ calls < MaxCallsObservers
    /\ ~diverged
    /\ \E P, c \in Node :
           /\ parentNode[c] = P
           /\ parentNode[P] # Null
           /\ registeredObservers[P] # <<>>
           /\ subtreeObservers(Heap, P) = <<>>
           /\ subtreeObservers(Heap, parentNode[P]) # <<>>
           /\ \E k \in 1..Len(registeredObservers[c]) :
                  registeredObservers[c][k].transient
           /\ removeChild(Heap, P, c, TRUE).ret = c

\* Number of text children at the head of a child list: the length of the run
\* of text nodes that starts with the first child
RECURSIVE LeadingTexts(_, _, _)
LeadingTexts(h, children, k) ==
    IF k > Len(children) THEN 0
    ELSE IF h.nodeType[children[k]] # TEXT_NODE THEN 0
    ELSE 1 + LeadingTexts(h, children, k + 1)

\* len(children[from]) + ... + len(children[to]), 1-based
RECURSIVE LengthOf(_, _, _, _)
LengthOf(h, children, from, to) ==
    IF from > to THEN 0
    ELSE Len(h.nodeValue[children[from]]) + LengthOf(h, children, from + 1, to)

\* N starts with a non-empty text child t0 that is followed by at least one
\* text sibling: normalize(N) merges the run t1..tk into t0
MergesLeadingRun(h, N) ==
    /\ LeadingTexts(h, h.childNodes[N], 1) >= 2
    /\ h.nodeValue[h.childNodes[N][1]] # <<>>

\* What C17 makes of a boundary point when the leading run of N is merged: a
\* point on N at the index j of a merged sibling goes to t0 behind the contents
\* of t0..t(j-1); any other point on N stays out of t0
OnParentAfterMerge(h, N, container, offset, container2, offset2) ==
    LET children == h.childNodes[N]
        run == LeadingTexts(h, children, 1)
    IN  container = N =>
            IF offset >= 1 /\ offset < run
            THEN /\ container2 = children[1]
                 /\ offset2 = LengthOf(h, children, 1, offset)
            ELSE container2 # children[1]

\* C17: when normalize(N) merges the text siblings t1..tk that follow the
\* non-empty first child t0 of N, every endpoint of a live range at (N, j)
\* with j the index of a merged sibling tj is re-anchored to
\* (t0, len(t0) + ... + len(t(j-1))), lengths before merging, and no endpoint
\* on N at another index - t0's own index 0 in particular - is moved into t0.
C17_ParentAnchoredCursors ==
    \A N \in Node :
        (~diverged /\ MergesLeadingRun(Heap, N)) =>
            \A recurse \in BOOLEAN :
                LET h2 == normalize(Heap, N, recurse)
                IN  ~h2.diverged =>
                        \A i \in 1..Len(ranges) :
                            /\ OnParentAfterMerge(Heap, N,
                                   ranges[i].startContainer, ranges[i].startOffset,
                                   h2.ranges[i].startContainer, h2.ranges[i].startOffset)
                            /\ OnParentAfterMerge(Heap, N,
                                   ranges[i].endContainer, ranges[i].endOffset,
                                   h2.ranges[i].endContainer, h2.ranges[i].endOffset)

\* First position of the run of text children that the text child at
\* position k belongs to (positions are 1-based)
RunStart(h, children, k) ==
    CHOOSE s \in 1..k :
        /\ \A j \in s..k : h.nodeType[children[j]] = TEXT_NODE
        /\ s = 1 \/ h.nodeType[children[s - 1]] # TEXT_NODE

\* Position of the text child that the text child at position k is merged
\* into - the first non-empty text node in front of it in its run - or 0 when
\* there is none
SurvivorOf(h, children, k) ==
    LET heads == {p \in RunStart(h, children, k)..(k - 1) :
                      h.nodeValue[children[p]] # <<>>}
    IN  IF heads = {} THEN 0
        ELSE CHOOSE p \in heads : \A q \in heads : p <= q

\* What C18 makes of a boundary point held by a text child of N: inside a
\* merged sibling it goes to the survivor t0, behind the contents of t0 and of
\* the siblings merged before; inside a survivor it stays
InSiblingAfterMerge(h, N, container, offset, container2, offset2) ==
    LET children == h.childNodes[N]
    IN  \A k \in 1..Len(children) :
            (children[k] = container /\ h.nodeType[container] = TEXT_NODE) =>
                LET p == SurvivorOf(h, children, k)
                IN  IF p # 0
                    THEN /\ container2 = children[p]
                         /\ offset2 = LengthOf(h, children, p, k - 1) + offset
                    ELSE h.nodeValue[container] # <<>> =>
                             /\ container2 = container
                             /\ offset2 = offset

\* C18: when normalize(N) merges the text siblings t1..tk into the non-empty
\* text child t0 in front of them, every endpoint of a live range at (tm, o)
\* is re-anchored to (t0, len(t0) + ... + len(t(m-1)) + o), lengths before
\* merging - it is not collapsed onto N by the removal of tm - and an endpoint
\* inside t0 keeps its container and offset.
C18_SiblingAnchoredCursors ==
    \A N \in Node :
        ~diverged =>
            \A recurse \in BOOLEAN :
                LET h2 == normalize(Heap, N, recurse)
                IN  ~h2.diverged =>
                        \A i \in 1..Len(ranges) :
                            /\ InSiblingAfterMerge(Heap, N,
                                   ranges[i].startContainer, ranges[i].startOffset,
                                   h2.ranges[i].startContainer, h2.ranges[i].startOffset)
                            /\ InSiblingAfterMerge(Heap, N,
                                   ranges[i].endContainer, ranges[i].endOffset,
                                   h2.ranges[i].endContainer, h2.ranges[i].endOffset)

\* C18 witness: a call has left a parent with a run of three text children,
\* the first not empty, with the start of the range behind the content of the
\* third and the end inside the first, and normalize on it returns
C18_Witness ==
    /\ calls < MaxCallsRanges
    /\ ~diverged
    /\ queue # <<>>
    /\ \E N \in Node :
           /\ LeadingTexts(Heap, childNodes[N], 1) = 3
           /\ nodeValue[childNodes[N][1]] # <<>>
           /\ nodeValue[childNodes[N][2]] # <<>>
           /\ ranges[1].startContainer = childNodes[N][3]
           /\ ranges[1].startOffset = 1
           /\ ranges[1].endContainer = childNodes[N][1]
           /\ ~normalize(Heap, N, TRUE).diverged

\* Every call of a mutating method on heap h returns
EveryCallReturns(h) ==
    /\ \A this, newNode \in Node, referenceNode \in NodeOrNull,
          suppressObservers \in BOOLEAN :
           ~insertBefore(h, this, newNode, referenceNode, suppressObservers).h.diverged
    /\ \A this, childNode \in Node, suppressObservers \in BOOLEAN :
           ~removeChild(h, this, childNode, suppressObservers).h.diverged
    /\ \A this, newChild, oldChild \in Node :
           ~replaceChild(h, this, newChild, oldChild).h.diverged
    /\ \A this \in Node, recurse \in BOOLEAN :
           ~normalize(h, this, recurse).diverged

\* C19: in every state reached from a forest by appendChild / insertBefore /
\* removeChild / replaceChild / normalize calls with any node arguments, no
\* call has failed to return, and each further call of contains,
\* insertBefore, appendChild, removeChild, replaceChild or normalize returns.
C19_EveryCallTerminates ==
    /\ ~diverged
    /\ calls > 0 =>
           /\ \A this \in Node, childNode \in NodeOrNull :
                  ~containsDiverges(Heap, this, childNode)
           /\ EveryCallReturns(Heap)

\* C20: the parent relation stays a forest - no node is its own parent or its
\* own proper ancestor - after any sequence of appendChild / insertBefore /
\* replaceChild / removeChild (and normalize) calls with any node arguments.
C20_ParentRelationIsForest ==
    \A n \in Node : n \notin ParentClosure(Heap, {parentNode[n]} \ {Null}, NumNodes)
====
